---- MODULE Spec2Model ----
(***************************************************************************)
(* A model of faadibruno.py: integer-partition generators, Faa di Bruno's  *)
(* formula, the Taylor-series inverse, re-centering and Horner evaluation. *)
(* Generators are modelled by the sequence of the values they yield, and a *)
(* consumer pulls that sequence one value per step.  Numbers are exact      *)
(* rationals <<numerator, denominator>> in lowest terms, denominator > 0    *)
(* (the code run on an exact-rational numeric type).                        *)
(***************************************************************************)
EXTENDS Integers, Sequences, FiniteSets

VARIABLES op, n, I, f, g, t, c0, c1, c2, pc, mid, out, ret, status

vars == <<op, n, I, f, g, t, c0, c1, c2, pc, mid, out, ret, status>>

(* ------------------------------ bounds --------------------------------- *)
MaxN == 6
MaxNeg == 2
MaxI == 2
MaxLen == 3
MaxVal == 2
MaxTerms == 3
MaxCoef == 1
MaxCenter == 1

(* ------------------------- exact rational numbers ---------------------- *)
Abs(a) == IF a < 0 THEN -a ELSE a

RECURSIVE GCD(_, _)
GCD(a, b) == IF b = 0 THEN a ELSE GCD(b, a % b)

Frac(a, b) ==
    LET d == GCD(Abs(a), Abs(b))
        s == IF b < 0 THEN -1 ELSE 1
    IN  <<s * (a \div d), s * (b \div d)>>

RInt(a) == <<a, 1>>
Zero == RInt(0)
One == RInt(1)

RAdd(p, q) ==
    LET d == GCD(p[2], q[2])
    IN  Frac(p[1] * (q[2] \div d) + q[1] * (p[2] \div d), (p[2] \div d) * q[2])

RNeg(p) == <<-p[1], p[2]>>

RSub(p, q) == RAdd(p, RNeg(q))

RMul(p, q) ==
    LET d1 == GCD(Abs(p[1]), q[2])
        d2 == GCD(Abs(q[1]), p[2])
    IN  <<(p[1] \div d1) * (q[1] \div d2), (p[2] \div d2) * (q[2] \div d1)>>

(* p / q for q # 0; the callers raise ZeroDivisionError when q = 0 *)
RDiv(p, q) == RMul(p, Frac(q[2], q[1]))

(* p ** k for an integer k >= 0; a power of a fraction in lowest terms is in   *)
(* lowest terms, and x ** 0 is 1 also for x = 0                                *)
RPow(p, k) == IF k = 0 THEN One ELSE <<p[1] ^ k, p[2] ^ k>>

RECURSIVE fac(_)
fac(k) == IF k <= 1 THEN 1 ELSE k * fac(k - 1)

(* ------------------------------ sequences ------------------------------ *)
(* [0]*k, which is [] for k <= 0 *)
Zeros(k) == IF k <= 0 THEN <<>> ELSE [j \in 1..k |-> 0]

RECURSIVE SumSeq(_)
SumSeq(s) == IF s = <<>> THEN 0 ELSE s[1] + SumSeq(Tail(s))

(* ------------------------------ partitions ----------------------------- *)
(* partitions(n, I): the tuples the generator yields, in order.  m \div 2   *)
(* is floor division, as Python's m // 2.                                   *)
RECURSIVE partitions(_, _), partitionsLoop(_, _, _)
partitionsIgnoringMin(m, J) == <<<<m>>>> \o partitionsLoop(m, 1, m \div 2)

partitions(m, J) == <<<<m>>>> \o partitionsLoop(m, J, m \div 2)

(* the loop "for i in range(J, m//2 + 1)" from i on *)
partitionsLoop(m, i, last) ==
    IF i > last THEN <<>>
    ELSE LET sub == partitions(m - i, i)
         IN  [k \in 1..Len(sub) |-> <<i>> \o sub[k]] \o partitionsLoop(m, i + 1, last)

(* partcounts(n, I): the lists the generator yields, in order.  Python's    *)
(* p[i-1] is the model's p[i].                                              *)
RECURSIVE partcounts(_, _), partcountsLoop(_, _, _)
partcountsSkippingFirst(m, J) == <<Zeros(m - 1) \o <<1>> >> \o partcountsLoop(m, J + 1, m \div 2)

partcounts(m, J) == <<Zeros(m - 1) \o <<1>> >> \o partcountsLoop(m, J, m \div 2)

partcountsLoop(m, i, last) ==
    IF i > last THEN <<>>
    ELSE LET sub == partcounts(m - i, i)
             ext(p) == p \o Zeros(i)
         IN  [k \in 1..Len(sub) |-> [ext(sub[k]) EXCEPT ![i] = @ + 1]]
                 \o partcountsLoop(m, i + 1, last)

(* tayparts(n): as partcounts, without the (n,) term and one entry shorter *)
RECURSIVE taypartsLoop(_, _, _)
taypartsLoop(m, i, last) ==
    IF i > last THEN <<>>
    ELSE LET sub == partcounts(m - i, i)
             ext(p) == p \o Zeros(i - 1)
         IN  [k \in 1..Len(sub) |-> [ext(sub[k]) EXCEPT ![i] = @ + 1]]
                 \o taypartsLoop(m, i + 1, last)

taypartsWithWhole(m) == partcounts(m, 1)

tayparts(m) == taypartsLoop(m, 1, m \div 2)

(* ------------------------------ faadibruno ----------------------------- *)
(* One partition's term of order m: P = fac(m) * f[sum(p)-1], then for each  *)
(* index i of p, P *= g[i]**p[i] / fac(p[i]) / fac(1+i)**p[i].  Python's     *)
(* index i is the model's i + 1.                                             *)
RECURSIVE faadibrunoFactors(_, _, _, _)
faadibrunoFactors(gg, p, i, P) ==
    IF i > Len(p) THEN P
    ELSE faadibrunoFactors(gg, p, i + 1,
            RMul(P, RDiv(RDiv(RPow(gg[i], p[i]), RInt(fac(p[i]))),
                         RInt(fac(i) ^ p[i]))))

faadibrunoTerm(ff, gg, m, p) ==
    faadibrunoFactors(gg, p, 1, RMul(RInt(fac(m)), ff[SumSeq(p)]))

(* S of order m: "S += P" over the lists ps of partcounts(m), from the k-th on *)
RECURSIVE faadibrunoSum(_, _, _, _, _, _)
faadibrunoSum(ff, gg, m, ps, k, S) ==
    IF k > Len(ps) THEN S
    ELSE faadibrunoSum(ff, gg, m, ps, k + 1, RAdd(S, faadibrunoTerm(ff, gg, m, ps[k])))

(* The m-th value of faadibruno(f, g), m = 1..len(f).  Every p of            *)
(* partcounts(m) has length m and the inner loop reads g[0..m-1], so a g      *)
(* shorter than m raises IndexError before the value is yielded.             *)
faadibrunoOrder(ff, gg, m) ==
    IF m > Len(gg) THEN [err |-> "IndexError", val |-> Zero]
    ELSE [err |-> "none", val |-> faadibrunoSum(ff, gg, m, partcounts(m, 1), 1, Zero)]

(* ---------------------------- _taylor_inverse -------------------------- *)
(* One partition's term inside _taylor_inverse: the same P, over the g solved *)
(* so far.                                                                    *)
inverseTermWrongFactorial(ff, gg, m, p) ==
    faadibrunoFactors(gg, p, 1, RMul(RInt(fac(m - 1)), ff[SumSeq(p)]))

inverseTerm(ff, gg, m, p) ==
    faadibrunoFactors(gg, p, 1, RMul(RInt(fac(m)), ff[SumSeq(p)]))

(* "S += P" over the lists ps of tayparts(m), from the k-th on *)
RECURSIVE inverseSum(_, _, _, _, _, _)
inverseSum(ff, gg, m, ps, k, S) ==
    IF k > Len(ps) THEN S
    ELSE inverseSum(ff, gg, m, ps, k + 1, RAdd(S, inverseTerm(ff, gg, m, ps[k])))

(* one pass of the loop body: S over tayparts(m), then -S/f[0] *)
inverseOrder(ff, gg, m) ==
    RDiv(RNeg(inverseSum(ff, gg, m, tayparts(m), 1, Zero)), ff[1])

(* the loop "for n in range(2, 1+len(f))" from m on *)
RECURSIVE inverseLoop(_, _, _)
inverseLoop(ff, gg, m) ==
    IF m > Len(ff) THEN gg
    ELSE inverseLoop(ff, Append(gg, inverseOrder(ff, gg, m)), m + 1)

_taylor_inverse(ff) ==
    IF Len(ff) = 0 THEN [err |-> "IndexError", val |-> <<>>]
    ELSE IF ff[1] = Zero THEN [err |-> "ZeroDivisionError", val |-> <<>>]
    ELSE [err |-> "none", val |-> inverseLoop(ff, <<RDiv(One, ff[1])>>, 2)]

(* ---------------------------- taylor_recenter -------------------------- *)
(* The k-th value (Python k = kk - 1) of taylor_recenter(x, c, t).           *)
RECURSIVE recenterLoop(_, _, _, _, _, _, _), recenterLoopNoBinomial(_, _, _, _, _, _, _)
recenterLoopNoBinomial(x, c, tt, k, i, S, P) ==
    IF i >= Len(tt) THEN RAdd(S, RMul(tt[Len(tt)], P))
    ELSE recenterLoopNoBinomial(x, c, tt, k, i + 1,
            RAdd(S, RMul(tt[i], P)),
            RMul(P, RSub(x, c)))

recenterLoop(x, c, tt, k, i, S, P) ==
    IF i >= Len(tt) THEN RAdd(S, RMul(tt[Len(tt)], P))
    ELSE recenterLoop(x, c, tt, k, i + 1,
            RAdd(S, RMul(tt[i], P)),
            RMul(P, RDiv(RMul(RInt(i), RSub(x, c)), RInt(i - k))))

recenterValueSwapped(x, c, tt, k) ==
    recenterLoop(c, x, tt, k, k + 1, Zero, One)

recenterValue(x, c, tt, k) ==
    recenterLoop(x, c, tt, k, k + 1, Zero, One)

taylor_recenter(x, c, tt) == [kk \in 1..Len(tt) |-> recenterValue(x, c, tt, kk - 1)]

(* ---------------------------- taylor_inverse --------------------------- *)
(* enumerate starts at 0: the k-th entry of t[1:] (k = 1, 2, ...) is scaled   *)
(* by fac(k - 1)                                                              *)
(* derivs = [a*fac(i) for i, a in enumerate(t[1:])] *)
derivsOf(tt) ==
    IF Len(tt) <= 1 THEN <<>>
    ELSE [k \in 1..(Len(tt) - 1) |-> RMul(tt[k + 1], RInt(fac(k - 1)))]

(* G = [0] + [a/fac(i) for i, a in enumerate(g)] *)
coeffsOf(gg) == <<Zero>> \o [k \in 1..Len(gg) |-> RDiv(gg[k], RInt(fac(k - 1)))]

(* -------------------------------- taylor ------------------------------- *)
(* Horner's rule over reversed(t) *)
RECURSIVE taylorLoop(_, _, _, _, _)
taylorLoop(x, c, tt, i, S) ==
    IF i = 0 THEN S
    ELSE taylorLoop(x, c, tt, i - 1, RAdd(RMul(S, RSub(x, c)), tt[i]))

taylor(x, c, tt) == taylorLoop(x, c, tt, Len(tt), Zero)

(* ------------------------------- inputs -------------------------------- *)
Ints == {RInt(a) : a \in (-MaxVal)..MaxVal}

RECURSIVE SeqsOfLen(_, _)
SeqsOfLen(S, k) ==
    IF k = 0 THEN {<<>>}
    ELSE {Append(s, e) : s \in SeqsOfLen(S, k - 1), e \in S}

SeqsUpTo(S, k) == UNION {SeqsOfLen(S, j) : j \in 0..k}

(* derivative sequences and coefficient lists handed to the operations *)
DerivSeqs == SeqsUpTo(Ints, MaxLen)
ShortSeqs == SeqsUpTo({RInt(-1), RInt(1)}, MaxLen)
Coefs == {RInt(a) : a \in (-MaxCoef)..MaxCoef}
CoefSeqs == SeqsUpTo(Coefs, MaxTerms)
DerivCoefSeqs == SeqsUpTo(Ints, MaxLen + 1)
Centers == {RInt(a) : a \in 0..MaxCenter}

(* ---------------------------- state machine ---------------------------- *)
(* op      the operation called last ("none" before the first call)          *)
(* n, I    arguments of partitions / partcounts / tayparts                   *)
(* f, g    derivative sequences (faadibruno, _taylor_inverse; derivs and g   *)
(*         inside taylor_inverse)                                            *)
(* t       Taylor coefficients; c0, c1, c2 centers                           *)
(* pc      position inside a composite call                                  *)
(* mid     an intermediate list (G in taylor_inverse, the first re-centering)*)
(* out     the values yielded or returned so far                             *)
(* ret     the number returned by taylor                                     *)
(* status  "idle", "running", "done" (returned / StopIteration) or "error"   *)
Init ==
    /\ op = "none"
    /\ n = 0
    /\ I = 1
    /\ f = <<>>
    /\ g = <<>>
    /\ t = <<>>
    /\ c0 = Zero
    /\ c1 = Zero
    /\ c2 = Zero
    /\ pc = ""
    /\ mid = <<>>
    /\ out = <<>>
    /\ ret = Zero
    /\ status = "idle"

(* --- partitions, partcounts, tayparts: a consumer pulling the generator --- *)
CallPartitions(m, J) ==
    /\ status = "idle"
    /\ op' = "partitions"
    /\ n' = m
    /\ I' = J
    /\ out' = <<>>
    /\ status' = "running"
    /\ UNCHANGED <<f, g, t, c0, c1, c2, pc, mid, ret>>

CallPartcounts(m, J) ==
    /\ status = "idle"
    /\ op' = "partcounts"
    /\ n' = m
    /\ I' = J
    /\ out' = <<>>
    /\ status' = "running"
    /\ UNCHANGED <<f, g, t, c0, c1, c2, pc, mid, ret>>

CallTayparts(m) ==
    /\ status = "idle"
    /\ op' = "tayparts"
    /\ n' = m
    /\ out' = <<>>
    /\ status' = "running"
    /\ UNCHANGED <<I, f, g, t, c0, c1, c2, pc, mid, ret>>

(* everything the running partition generator yields *)
Yields ==
    CASE op = "partitions" -> partitions(n, I)
      [] op = "partcounts" -> partcounts(n, I)
      [] op = "tayparts" -> tayparts(n)
      [] OTHER -> <<>>

(* next(): the generator yields its next value *)
PartNext ==
    /\ status = "running"
    /\ op \in {"partitions", "partcounts", "tayparts"}
    /\ Len(out) < Len(Yields)
    /\ out' = Append(out, Yields[Len(out) + 1])
    /\ UNCHANGED <<op, n, I, f, g, t, c0, c1, c2, pc, mid, ret, status>>

(* next(): the generator is exhausted (StopIteration) *)
PartStop ==
    /\ status = "running"
    /\ op \in {"partitions", "partcounts", "tayparts"}
    /\ Len(out) = Len(Yields)
    /\ status' = "done"
    /\ UNCHANGED <<op, n, I, f, g, t, c0, c1, c2, pc, mid, out, ret>>

NextPartitions ==
    \/ status = "idle" /\ \E m \in (-MaxNeg)..MaxN, J \in 1..MaxI : CallPartitions(m, J)
    \/ status = "idle" /\ \E m \in (-MaxNeg)..MaxN, J \in 1..MaxI : CallPartcounts(m, J)
    \/ status = "idle" /\ \E m \in (-MaxNeg)..MaxN : CallTayparts(m)
    \/ PartNext
    \/ PartStop

SpecPartitions == Init /\ [][NextPartitions]_vars

(* --- faadibruno: a consumer pulling the generator --- *)
CallFaadibruno(ff, gg) ==
    /\ status = "idle"
    /\ op' = "faadibruno"
    /\ f' = ff
    /\ g' = gg
    /\ pc' = "direct"
    /\ out' = <<>>
    /\ status' = "running"
    /\ UNCHANGED <<n, I, t, c0, c1, c2, mid, ret>>

(* next(): the value of order len(out)+1 is yielded *)
FaadibrunoNext ==
    /\ status = "running"
    /\ op = "faadibruno"
    /\ Len(out) < Len(f)
    /\ faadibrunoOrder(f, g, Len(out) + 1).err = "none"
    /\ out' = Append(out, faadibrunoOrder(f, g, Len(out) + 1).val)
    /\ UNCHANGED <<op, n, I, f, g, t, c0, c1, c2, pc, mid, ret, status>>

(* next(): computing the value of order len(out)+1 raises *)
FaadibrunoRaise ==
    /\ status = "running"
    /\ op = "faadibruno"
    /\ Len(out) < Len(f)
    /\ faadibrunoOrder(f, g, Len(out) + 1).err # "none"
    /\ status' = "error"
    /\ UNCHANGED <<op, n, I, f, g, t, c0, c1, c2, pc, mid, out, ret>>

(* next(): range(1, len(f)+1) is exhausted (StopIteration) *)
FaadibrunoStop ==
    /\ status = "running"
    /\ op = "faadibruno"
    /\ Len(out) = Len(f)
    /\ status' = "done"
    /\ UNCHANGED <<op, n, I, f, g, t, c0, c1, c2, pc, mid, out, ret>>

NextCompose ==
    \/ status = "idle" /\ \E ff \in DerivSeqs, gg \in ShortSeqs : CallFaadibruno(ff, gg)
    \/ FaadibrunoNext
    \/ FaadibrunoRaise
    \/ FaadibrunoStop

SpecCompose == Init /\ [][NextCompose]_vars

(* --- _taylor_inverse, and faadibruno(f, _taylor_inverse(f)) --- *)
(* the call, up to g = [1/f[0]]: f[0] raises IndexError on an empty f and     *)
(* 1/f[0] raises ZeroDivisionError                                            *)
CallTaylorInverseDerivs(ff) ==
    /\ status = "idle"
    /\ op' = "_taylor_inverse"
    /\ f' = ff
    /\ IF Len(ff) = 0 \/ ff[1] = Zero
       THEN g' = <<>> /\ status' = "error"
       ELSE g' = <<RDiv(One, ff[1])>> /\ status' = "running"
    /\ pc' = "loop"
    /\ out' = <<>>
    /\ UNCHANGED <<n, I, t, c0, c1, c2, mid, ret>>

(* one pass of "for n in range(2, 1+len(f))" *)
TaylorInverseDerivsStep ==
    /\ op = "_taylor_inverse"
    /\ status = "running"
    /\ Len(g) < Len(f)
    /\ g' = Append(g, inverseOrder(f, g, Len(g) + 1))
    /\ UNCHANGED <<op, n, I, f, t, c0, c1, c2, pc, mid, out, ret, status>>

(* return g *)
TaylorInverseDerivsReturn ==
    /\ op = "_taylor_inverse"
    /\ status = "running"
    /\ Len(g) = Len(f)
    /\ out' = g
    /\ status' = "done"
    /\ UNCHANGED <<op, n, I, f, g, t, c0, c1, c2, pc, mid, ret>>

(* the returned list is handed to faadibruno as g *)
ComposeWithInverse ==
    /\ op = "_taylor_inverse"
    /\ status = "done"
    /\ op' = "faadibruno"
    /\ g' = out
    /\ out' = <<>>
    /\ pc' = "composed"
    /\ status' = "running"
    /\ UNCHANGED <<n, I, f, t, c0, c1, c2, mid, ret>>

NextInverse ==
    \/ status = "idle" /\ \E ff \in DerivSeqs : CallTaylorInverseDerivs(ff)
    \/ TaylorInverseDerivsStep
    \/ TaylorInverseDerivsReturn
    \/ ComposeWithInverse
    \/ FaadibrunoNext
    \/ FaadibrunoStop

SpecInverse == Init /\ [][NextInverse]_vars

(* --- taylor_recenter, and a second re-centering of its list --- *)
CallRecenter(tt, a, b, d) ==
    /\ status = "idle"
    /\ op' = "taylor_recenter"
    /\ t' = tt
    /\ c0' = a
    /\ c1' = b
    /\ c2' = d
    /\ pc' = "first"
    /\ mid' = <<>>
    /\ out' = <<>>
    /\ status' = "running"
    /\ UNCHANGED <<n, I, f, g, ret>>

(* list(taylor_recenter(c1, c0, t)) pulls the next value *)
RecenterFirstNext ==
    /\ op = "taylor_recenter"
    /\ pc = "first"
    /\ Len(mid) < Len(t)
    /\ mid' = Append(mid, recenterValue(c1, c0, t, Len(mid)))
    /\ UNCHANGED <<op, n, I, f, g, t, c0, c1, c2, pc, out, ret, status>>

(* range(n) is exhausted; the list is handed to taylor_recenter(c2, c1, .) *)
RecenterFirstStop ==
    /\ op = "taylor_recenter"
    /\ pc = "first"
    /\ Len(mid) = Len(t)
    /\ pc' = "second"
    /\ UNCHANGED <<op, n, I, f, g, t, c0, c1, c2, mid, out, ret, status>>

RecenterSecondNext ==
    /\ op = "taylor_recenter"
    /\ pc = "second"
    /\ status = "running"
    /\ Len(out) < Len(mid)
    /\ out' = Append(out, recenterValue(c2, c1, mid, Len(out)))
    /\ UNCHANGED <<op, n, I, f, g, t, c0, c1, c2, pc, mid, ret, status>>

RecenterSecondStop ==
    /\ op = "taylor_recenter"
    /\ pc = "second"
    /\ status = "running"
    /\ Len(out) = Len(mid)
    /\ status' = "done"
    /\ UNCHANGED <<op, n, I, f, g, t, c0, c1, c2, pc, mid, out, ret>>

NextRecenter ==
    \/ status = "idle" /\ \E tt \in CoefSeqs, a \in Centers, b \in Centers, d \in Centers :
          CallRecenter(tt, a, b, d)
    \/ RecenterFirstNext
    \/ RecenterFirstStop
    \/ RecenterSecondNext
    \/ RecenterSecondStop

SpecRecenter == Init /\ [][NextRecenter]_vars

(* --- taylor_inverse, statement by statement, and taylor on its result --- *)
CallTaylorInverse(tt) ==
    /\ status = "idle"
    /\ op' = "taylor_inverse"
    /\ t' = tt
    /\ pc' = "derivs"
    /\ status' = "running"
    /\ UNCHANGED <<n, I, f, g, c0, c1, c2, mid, out, ret>>

(* derivs = [a*fac(i) for i, a in enumerate(t[1:])] *)
TaylorInverseDerivs ==
    /\ op = "taylor_inverse"
    /\ status = "running"
    /\ pc = "derivs"
    /\ f' = derivsOf(t)
    /\ pc' = "inverse"
    /\ UNCHANGED <<op, n, I, g, t, c0, c1, c2, mid, out, ret, status>>

(* g = _taylor_inverse(derivs) *)
TaylorInverseInvert ==
    /\ op = "taylor_inverse"
    /\ status = "running"
    /\ pc = "inverse"
    /\ _taylor_inverse(f).err = "none"
    /\ g' = _taylor_inverse(f).val
    /\ pc' = "coeffs"
    /\ UNCHANGED <<op, n, I, f, t, c0, c1, c2, mid, out, ret, status>>

(* _taylor_inverse(derivs) raises: derivs is empty, or derivs[0] is 0 *)
TaylorInverseRaise ==
    /\ op = "taylor_inverse"
    /\ status = "running"
    /\ pc = "inverse"
    /\ _taylor_inverse(f).err # "none"
    /\ status' = "error"
    /\ UNCHANGED <<op, n, I, f, g, t, c0, c1, c2, pc, mid, out, ret>>

(* G = [0] + [a/fac(i) for i, a in enumerate(g)] *)
TaylorInverseCoeffs ==
    /\ op = "taylor_inverse"
    /\ status = "running"
    /\ pc = "coeffs"
    /\ mid' = coeffsOf(g)
    /\ pc' = "recenter"
    /\ UNCHANGED <<op, n, I, f, g, t, c0, c1, c2, out, ret, status>>

(* F = list(taylor_recenter(0, derivs[0], G)); return F *)
TaylorInverseReturn ==
    /\ op = "taylor_inverse"
    /\ status = "running"
    /\ pc = "recenter"
    /\ out' = taylor_recenter(Zero, f[1], mid)
    /\ pc' = "return"
    /\ status' = "done"
    /\ UNCHANGED <<op, n, I, f, g, t, c0, c1, c2, mid, ret>>

(* taylor(t[0], 0, F) on the list taylor_inverse(t) returned *)
CallTaylor ==
    /\ op = "taylor_inverse"
    /\ status = "done"
    /\ op' = "taylor"
    /\ c0' = t[1]
    /\ c1' = Zero
    /\ ret' = taylor(t[1], Zero, out)
    /\ UNCHANGED <<n, I, f, g, t, c2, pc, mid, out, status>>

NextTaylorInverse ==
    \/ status = "idle" /\ \E tt \in DerivCoefSeqs : CallTaylorInverse(tt)
    \/ TaylorInverseDerivs
    \/ TaylorInverseInvert
    \/ TaylorInverseRaise
    \/ TaylorInverseCoeffs
    \/ TaylorInverseReturn
    \/ CallTaylor

SpecTaylorInverse == Init /\ [][NextTaylorInverse]_vars

(* --- the whole module --- *)
Next ==
    \/ NextPartitions
    \/ NextCompose
    \/ NextInverse
    \/ NextRecenter
    \/ NextTaylorInverse

Spec == Init /\ [][Next]_vars

(* ======================= properties of the program ====================== *)
(* reference notions the properties are stated with *)
RECURSIVE WeightedSumFrom(_, _)
WeightedSumFrom(v, i) == IF i > Len(v) THEN 0 ELSE i * v[i] + WeightedSumFrom(v, i + 1)

(* sum over i of (i+1)*p[i], in Python's indexing *)
WeightedSum(v) == WeightedSumFrom(v, 1)

(* how often each part 1..len occurs in the tuple p *)
MultVec(p, len) == [i \in 1..len |-> Cardinality({k \in 1..Len(p) : p[k] = i})]

(* every vector v of length k with 0 <= v[i] <= m \div i *)
RECURSIVE BoundedVecs(_, _)
BoundedVecs(m, k) ==
    IF k = 0 THEN {<<>>}
    ELSE {Append(v, e) : v \in BoundedVecs(m, k - 1), e \in 0..(m \div k)}

(* the multiplicity vectors of all partitions of m *)
AllMultVecs(m) == {v \in BoundedVecs(m, m) : WeightedSum(v) = m}

(* the partition function p(m), and its first values *)
NumPartitions(m) == Cardinality(AllMultVecs(m))
PartitionNumbers == <<1, 2, 3, 5, 7, 11, 15, 22, 30, 42>>

IsNonDecreasing(p) == \A k \in 1..(Len(p) - 1) : p[k] <= p[k + 1]
NoRepeats(s) == \A j, k \in 1..Len(s) : j # k => s[j] # s[k]
Elems(s) == {s[k] : k \in 1..Len(s)}

(* C1: for n >= 1 every tuple partitions(n) yields consists of positive       *)
(* integers in non-decreasing order summing to n, none is yielded twice, and  *)
(* the generator yields p(n) tuples in all (1, 2, 3, 5, 7, ...).              *)
C1_PartitionsOfN ==
    (op = "partitions" /\ I = 1 /\ n >= 1) =>
        /\ \A k \in 1..Len(out) :
              /\ \A j \in 1..Len(out[k]) : out[k][j] >= 1
              /\ IsNonDecreasing(out[k])
              /\ SumSeq(out[k]) = n
        /\ NoRepeats(out)
        /\ Len(out) <= NumPartitions(n)
        /\ status = "done" =>
              /\ Len(out) = NumPartitions(n)
              /\ n <= Len(PartitionNumbers) => Len(out) = PartitionNumbers[n]

C1_Witness ==
    /\ op = "partitions"
    /\ I = 1
    /\ n = 5
    /\ status = "done"
    /\ Len(out) = 7
    /\ out[6] = <<1, 2, 2>>

(* C2: for n >= 1 every vector partcounts(n) yields has length n, entries      *)
(* >= 0 and weighted sum n; the k-th vector is the multiplicity vector of the  *)
(* k-th tuple of partitions(n); p(n) vectors are yielded in all.               *)
C2_PartcountsOfN ==
    (op = "partcounts" /\ I = 1 /\ n >= 1) =>
        /\ \A k \in 1..Len(out) :
              /\ Len(out[k]) = n
              /\ \A j \in 1..n : out[k][j] >= 0
              /\ WeightedSum(out[k]) = n
              /\ k <= Len(partitions(n, 1))
              /\ out[k] = MultVec(partitions(n, 1)[k], n)
        /\ status = "done" =>
              /\ Len(out) = NumPartitions(n)
              /\ Len(out) = Len(partitions(n, 1))

C2_Witness ==
    /\ op = "partcounts"
    /\ I = 1
    /\ n = 5
    /\ status = "done"
    /\ Len(out) = 7
    /\ out[6] = <<1, 2, 0, 0, 0>>

(* C8: for n <= 0, consuming partitions(n) or partcounts(n) ends in a failure  *)
(* and yields nothing.                                                         *)
C8_NonPositiveFails ==
    (op \in {"partitions", "partcounts"} /\ n <= 0) =>
        /\ out = <<>>
        /\ status # "done"

(* C10: for n >= 2 tayparts(n) yields exactly the multiplicity vectors of the  *)
(* partitions of n with 2 or more parts, each once (p(n) - 1 vectors), every   *)
(* vector of length n-1 and weighted sum n; tayparts(1) yields nothing.        *)
C10_TaypartsOfN ==
    /\ (op = "tayparts" /\ n >= 2) =>
          /\ \A k \in 1..Len(out) :
                /\ Len(out[k]) = n - 1
                /\ \A j \in 1..(n - 1) : out[k][j] >= 0
                /\ WeightedSum(out[k]) = n
                /\ SumSeq(out[k]) >= 2
          /\ NoRepeats(out)
          /\ status = "done" =>
                /\ Len(out) = NumPartitions(n) - 1
                /\ Elems(out) = {SubSeq(v, 1, n - 1) : v \in {w \in AllMultVecs(n) : SumSeq(w) >= 2}}
    /\ (op = "tayparts" /\ n = 1) => out = <<>>

C10_Witness ==
    /\ op = "tayparts"
    /\ n = 5
    /\ status = "done"
    /\ Len(out) = 6
    /\ out[1] = <<1, 0, 0, 1>>

(* C3: for f of length N >= 1 with f[0] # 0, faadibruno(f, _taylor_inverse(f)) *)
(* yields exactly N values, the first 1 and all the others 0.                  *)
C3_InverseComposesToIdentity ==
    /\ (/\ op = "faadibruno"
        /\ pc = "composed"
        /\ Len(f) >= 1
        /\ f[1] # Zero) =>
          /\ \A k \in 1..Len(out) : out[k] = IF k = 1 THEN One ELSE Zero
          /\ Len(out) <= Len(f)
          /\ status # "error"
          /\ status = "done" => Len(out) = Len(f)
    /\ (op = "_taylor_inverse" /\ status = "done") =>
          /\ Len(out) = Len(f)
          /\ f = <<One, One, One>> => out = <<RInt(1), RInt(-1), RInt(2)>>

C3_Witness ==
    /\ op = "faadibruno"
    /\ pc = "composed"
    /\ status = "done"
    /\ f = <<RInt(2), RInt(-1), RInt(2)>>
    /\ g = <<Frac(1, 2), Frac(1, 8), Frac(-1, 32)>>
    /\ out = <<One, Zero, Zero>>

(* C9: for len(f) # len(g), faadibruno(f, g) fails and delivers no value      *)
(* (stated for the non-empty f and g the operation accepts).                   *)
C9_LengthMismatchFails ==
    (op = "faadibruno" /\ Len(f) >= 1 /\ Len(g) >= 1 /\ Len(f) # Len(g)) =>
        /\ out = <<>>
        /\ status # "done"

(* the binomial coefficient C(j, k) *)
RECURSIVE Choose(_, _)
Choose(j, k) ==
    IF k < 0 \/ k > j THEN 0
    ELSE IF k = 0 \/ k = j THEN 1
    ELSE Choose(j - 1, k - 1) + Choose(j - 1, k)

(* sum over j = k..len(t)-1 of C(j,k) * t[j] * d^(j-k), Python's indexing *)
RECURSIVE ShiftSumFrom(_, _, _, _)
ShiftSumFrom(tt, d, k, j) ==
    IF j > Len(tt) - 1 THEN Zero
    ELSE RAdd(RMul(RMul(RInt(Choose(j, k)), tt[j + 1]), RPow(d, j - k)),
              ShiftSumFrom(tt, d, k, j + 1))

ShiftSum(tt, d, k) == ShiftSumFrom(tt, d, k, k)

(* C6: taylor_recenter(x, c, t) yields len(t) values, the k-th being the sum   *)
(* over j = k..n-1 of C(j,k) * t[j] * (x-c)^(j-k).                             *)
C6_RecenterIsTaylorShift ==
    op = "taylor_recenter" =>
        /\ Len(mid) <= Len(t)
        /\ \A k \in 1..Len(mid) : mid[k] = ShiftSum(t, RSub(c1, c0), k - 1)
        /\ pc = "second" =>
              /\ Len(mid) = Len(t)
              /\ Len(out) <= Len(mid)
              /\ \A k \in 1..Len(out) : out[k] = ShiftSum(mid, RSub(c2, c1), k - 1)
              /\ status = "done" => Len(out) = Len(mid)

C6_Witness ==
    /\ op = "taylor_recenter"
    /\ pc = "second"
    /\ t = <<RInt(1), RInt(-1), RInt(1)>>
    /\ c0 = RInt(0)
    /\ c1 = RInt(1)
    /\ mid = <<RInt(1), RInt(1), RInt(1)>>

C4_FactorialScaling ==
    /\ (op = "taylor_inverse" /\ pc # "derivs") =>
          /\ Len(f) = (IF Len(t) = 0 THEN 0 ELSE Len(t) - 1)
          /\ \A k \in 1..Len(f) : f[k] = RMul(RInt(fac(k)), t[k + 1])
    /\ (op = "taylor_inverse" /\ pc \in {"recenter", "return"}) =>
          /\ Len(mid) = Len(g) + 1
          /\ mid[1] = Zero
          /\ \A k \in 1..Len(g) : mid[k + 1] = RDiv(g[k], RInt(fac(k)))

(* C5: for len(t) >= 2 and t[1] # 0, taylor(t[0], 0, taylor_inverse(t)) = 0.   *)
C5_InverseMapsImageToZero ==
    (op = "taylor" /\ Len(t) >= 2 /\ t[2] # Zero) => ret = Zero

====
